---------------------------- MODULE Spec2Model ----------------------------
(***************************************************************************)
(* A model of wikepedia_parser.py: WikiExtractor.parse_dump_regex reads a  *)
(* dump line by line, accumulates each page's text field, extracts the     *)
(* words of its Vietnamese sentences (extract_words) and appends them to   *)
(* the spool file temp_words_all.txt; WikiExtractor.save_words then sorts  *)
(* and deduplicates the spool into the output file.  main runs the two in  *)
(* sequence.                                                               *)
(***************************************************************************)
EXTENDS Naturals, Sequences, FiniteSets, TLC

VARIABLES
  pc,                   \* where main is: see the actions
  output_file,          \* main: sys.argv[2], or its default
  files,                \* the file system: path -> [exists, lines]
  dump,                 \* the lines of the dump file, where a scenario fixes them
  consumed,             \* how many lines the for loop of line 107 has consumed
  in_page, in_text, current_text, text_lines,   \* lines 102-105
  articles_processed, articles_matched,         \* lines 91-92
  total_words_written,                          \* line 20
  emitted,              \* history: the latest call of extract_words
  cap_hit,              \* history: the current page ran into the line cap
  after_cap,            \* history: the page before the current one did
  spooled,              \* history: the spool's lines as save_words found them
  run, first_run,       \* history: the run of main, and what the first run did
  exception,            \* history: where the run raised: "open", "read", "sort"
  files_before          \* history: the file system when the run started

parser == <<in_page, in_text, current_text, text_lines>>
counters == <<articles_processed, articles_matched, total_words_written>>
history == <<emitted, cap_hit, after_cap, spooled, run, first_run, exception,
             files_before>>
vars == <<pc, output_file, files, dump, consumed, parser, counters, history>>

(***************************************************************************)
(* Characters.  A character of the program's text is written here as an    *)
(* ASCII string: an ASCII character stands for itself, and a Vietnamese    *)
(* letter is written in the VNI convention, the base letter followed by    *)
(* 6, 7, 8 for circumflex, horn, breve and by 1, 2, 3, 4, 5 for the acute, *)
(* grave, hook, tilde and dot-below tones: "a2" is U+00E0, "a61" is        *)
(* U+1EA5, "d9" and "D9" are U+0111 and U+0110.  A text (str) is a         *)
(* sequence of characters.                                                 *)
(***************************************************************************)

\* has_vietnamese_diacritic: the 67 characters of vietnamese_chars
vietnamese_chars ==
  {"a2", "a1", "a5", "a3", "a4", "a6", "a62", "a61", "a65", "a63", "a64",
    "a8", "a82", "a81", "a85", "a83", "a84", "e2", "e1", "e5", "e3", "e4",
    "e6", "e62", "e61", "e65", "e63", "e64", "i2", "i1", "i5", "i3", "i4",
    "o2", "o1", "o5", "o3", "o4", "o6", "o62", "o61", "o65", "o63", "o64",
    "o7", "o72", "o71", "o75", "o73", "o74", "u2", "u1", "u5", "u3", "u4",
    "u7", "u72", "u71", "u75", "u73", "u74", "y2", "y1", "y5", "y3", "y4",
    "d9"}

AsciiLower ==
  {"a", "b", "c", "d", "e", "f", "g", "h", "i", "j", "k", "l", "m", "n",
    "o", "p", "q", "r", "s", "t", "u", "v", "w", "x", "y", "z"}

AsciiUpper ==
  {"A", "B", "C", "D", "E", "F", "G", "H", "I", "J", "K", "L", "M", "N",
    "O", "P", "Q", "R", "S", "T", "U", "V", "W", "X", "Y", "Z"}

\* word_pattern: [a-zA-Z<the 67 diacritic letters>D9]
WordChars == AsciiLower \cup AsciiUpper \cup vietnamese_chars \cup {"D9"}


\* str.lower(): the upper-case letters and, position by position, their
\* lower-case forms; every other character is its own lower-case form
UpperCase ==
  <<"A", "B", "C", "D", "E", "F", "G", "H", "I", "J", "K", "L", "M", "N",
    "O", "P", "Q", "R", "S", "T", "U", "V", "W", "X", "Y", "Z", "A2", "A1",
    "A5", "A3", "A4", "A6", "A62", "A61", "A65", "A63", "A64", "A8", "A82",
    "A81", "A85", "A83", "A84", "E2", "E1", "E5", "E3", "E4", "E6", "E62",
    "E61", "E65", "E63", "E64", "I2", "I1", "I5", "I3", "I4", "O2", "O1",
    "O5", "O3", "O4", "O6", "O62", "O61", "O65", "O63", "O64", "O7", "O72",
    "O71", "O75", "O73", "O74", "U2", "U1", "U5", "U3", "U4", "U7", "U72",
    "U71", "U75", "U73", "U74", "Y2", "Y1", "Y5", "Y3", "Y4", "D9">>

LowerCase ==
  <<"a", "b", "c", "d", "e", "f", "g", "h", "i", "j", "k", "l", "m", "n",
    "o", "p", "q", "r", "s", "t", "u", "v", "w", "x", "y", "z", "a2", "a1",
    "a5", "a3", "a4", "a6", "a62", "a61", "a65", "a63", "a64", "a8", "a82",
    "a81", "a85", "a83", "a84", "e2", "e1", "e5", "e3", "e4", "e6", "e62",
    "e61", "e65", "e63", "e64", "i2", "i1", "i5", "i3", "i4", "o2", "o1",
    "o5", "o3", "o4", "o6", "o62", "o61", "o65", "o63", "o64", "o7", "o72",
    "o71", "o75", "o73", "o74", "u2", "u1", "u5", "u3", "u4", "u7", "u72",
    "u71", "u75", "u73", "u74", "y2", "y1", "y5", "y3", "y4", "d9">>

LowerTable ==
  [c \in {UpperCase[i] : i \in 1..Len(UpperCase)} |->
     LowerCase[CHOOSE i \in 1..Len(UpperCase) : UpperCase[i] = c]]

Lower(c) == IF c \in DOMAIN LowerTable THEN LowerTable[c] ELSE c

LowerStr(s) == [i \in 1..Len(s) |-> Lower(s[i])]

\* the characters of the model in code point order, and their code points
CharOrder ==
  <<"\t", "\n", " ", "!", "#", ",", "-", ".", "/", "0", "1", "2", "3", "4",
    "5", "6", "7", "8", "9", ":", ";", "<", "=", ">", "?", "A", "B", "C",
    "D", "E", "F", "G", "H", "I", "J", "K", "L", "M", "N", "O", "P", "Q",
    "R", "S", "T", "U", "V", "W", "X", "Y", "Z", "[", "]", "_", "a", "b",
    "c", "d", "e", "f", "g", "h", "i", "j", "k", "l", "m", "n", "o", "p",
    "q", "r", "s", "t", "u", "v", "w", "x", "y", "z", "{", "|", "}", "A2",
    "A1", "A6", "A4", "E2", "E1", "E6", "I2", "I1", "O2", "O1", "O6", "O4",
    "U2", "U1", "Y1", "a2", "a1", "a6", "a4", "e2", "e1", "e6", "i2", "i1",
    "o2", "o1", "o6", "o4", "u2", "u1", "y1", "A8", "a8", "D9", "d9", "I4",
    "i4", "U4", "u4", "O7", "o7", "U7", "u7", "A5", "a5", "A3", "a3",
    "A61", "a61", "A62", "a62", "A63", "a63", "A64", "a64", "A65", "a65",
    "A81", "a81", "A82", "a82", "A83", "a83", "A84", "a84", "A85", "a85",
    "E5", "e5", "E3", "e3", "E4", "e4", "E61", "e61", "E62", "e62", "E63",
    "e63", "E64", "e64", "E65", "e65", "I3", "i3", "I5", "i5", "O5", "o5",
    "O3", "o3", "O61", "o61", "O62", "o62", "O63", "o63", "O64", "o64",
    "O65", "o65", "O71", "o71", "O72", "o72", "O73", "o73", "O74", "o74",
    "O75", "o75", "U5", "u5", "U3", "u3", "U71", "u71", "U72", "u72",
    "U73", "u73", "U74", "u74", "U75", "u75", "Y2", "y2", "Y5", "y5", "Y3",
    "y3", "Y4", "y4">>

CodePoints ==
  <<9, 10, 32, 33, 35, 44, 45, 46, 47, 48, 49, 50, 51, 52, 53, 54, 55, 56,
    57, 58, 59, 60, 61, 62, 63, 65, 66, 67, 68, 69, 70, 71, 72, 73, 74, 75,
    76, 77, 78, 79, 80, 81, 82, 83, 84, 85, 86, 87, 88, 89, 90, 91, 93, 95,
    97, 98, 99, 100, 101, 102, 103, 104, 105, 106, 107, 108, 109, 110, 111,
    112, 113, 114, 115, 116, 117, 118, 119, 120, 121, 122, 123, 124, 125,
    192, 193, 194, 195, 200, 201, 202, 204, 205, 210, 211, 212, 213, 217,
    218, 221, 224, 225, 226, 227, 232, 233, 234, 236, 237, 242, 243, 244,
    245, 249, 250, 253, 258, 259, 272, 273, 296, 297, 360, 361, 416, 417,
    431, 432, 7840, 7841, 7842, 7843, 7844, 7845, 7846, 7847, 7848, 7849,
    7850, 7851, 7852, 7853, 7854, 7855, 7856, 7857, 7858, 7859, 7860, 7861,
    7862, 7863, 7864, 7865, 7866, 7867, 7868, 7869, 7870, 7871, 7872, 7873,
    7874, 7875, 7876, 7877, 7878, 7879, 7880, 7881, 7882, 7883, 7884, 7885,
    7886, 7887, 7888, 7889, 7890, 7891, 7892, 7893, 7894, 7895, 7896, 7897,
    7898, 7899, 7900, 7901, 7902, 7903, 7904, 7905, 7906, 7907, 7908, 7909,
    7910, 7911, 7912, 7913, 7914, 7915, 7916, 7917, 7918, 7919, 7920, 7921,
    7922, 7923, 7924, 7925, 7926, 7927, 7928, 7929>>

Chars == {CharOrder[i] : i \in 1..Len(CharOrder)}

\* the characters the patterns' \s matches, and those \S matches
Whitespace == {" ", "\n", "\t"}

NonWhitespace == Chars \ Whitespace

CodePointTable ==
  [c \in Chars |->
     CodePoints[CHOOSE i \in 1..Len(CharOrder) : CharOrder[i] = c]]

\* encoding="utf-8": the bytes a character is written as (code points below
\* 2^16, which covers every character above)
Utf8(c) ==
  LET cp == CodePointTable[c]
  IN  IF cp < 128 THEN <<cp>>
      ELSE IF cp < 2048 THEN <<192 + (cp \div 64), 128 + (cp % 64)>>
      ELSE <<224 + (cp \div 4096), 128 + ((cp \div 64) % 64), 128 + (cp % 64)>>

RECURSIVE Encode(_)
Encode(s) == IF s = <<>> THEN <<>> ELSE Utf8(Head(s)) \o Encode(Tail(s))

(***************************************************************************)
(* Substring search, as Python's "in" and the regular expression engine's  *)
(* leftmost scan need it.  Positions count from 1; 0 means "none".         *)
(***************************************************************************)
RECURSIVE FirstIn(_, _, _)
FirstIn(s, chars, i) ==
  IF i > Len(s) THEN 0
  ELSE IF s[i] \in chars THEN i
  ELSE FirstIn(s, chars, i + 1)

StartsWithAt(s, p, i) ==
  /\ i >= 1
  /\ i + Len(p) - 1 <= Len(s)
  /\ \A k \in 1..Len(p) : s[i + k - 1] = p[k]

RECURSIVE FindFrom(_, _, _)
FindFrom(s, p, i) ==
  IF i + Len(p) - 1 > Len(s) THEN 0
  ELSE IF StartsWithAt(s, p, i) THEN i
  ELSE FindFrom(s, p, i + 1)

RECURSIVE FindLast(_, _, _)
FindLast(s, p, i) ==
  IF i < 1 THEN 0
  ELSE IF StartsWithAt(s, p, i) THEN i
  ELSE FindLast(s, p, i - 1)

\* p in s
Contains(s, p) == FindFrom(s, p, 1) # 0

\* the end of the run of characters of `chars` that starts at i (i - 1 when
\* the run is empty)
RECURSIVE RunEnd(_, _, _)
RunEnd(s, chars, i) ==
  IF i <= Len(s) /\ s[i] \in chars THEN RunEnd(s, chars, i + 1) ELSE i - 1

Slice(s, i, j) == IF j < i THEN <<>> ELSE SubSeq(s, i, j)

RECURSIVE Join(_)
Join(parts) == IF parts = <<>> THEN <<>> ELSE Head(parts) \o Join(Tail(parts))

(***************************************************************************)
(* The marker and pattern literals of the source.                          *)
(***************************************************************************)
PAGE_START == <<"<", "p", "a", "g", "e", ">">>
PAGE_END == <<"<", "/", "p", "a", "g", "e", ">">>
TEXT_START == <<"<", "t", "e", "x", "t">>
TEXT_END == <<"<", "/", "t", "e", "x", "t", ">">>
REF_START == <<"<", "r", "e", "f">>
REF_END == <<"<", "/", "r", "e", "f", ">">>
HTTP == <<"h", "t", "t", "p">>
COLON_SLASHES == <<":", "/", "/">>
\* Category, Thể loại, File, Tập tin
CategoryKeywords ==
  << <<"C", "a", "t", "e", "g", "o", "r", "y">>,
     <<"T", "h", "e63", " ", "l", "o", "a5", "i">>,
     <<"F", "i", "l", "e">>,
     <<"T", "a65", "p", " ", "t", "i", "n">> >>

(***************************************************************************)
(* extract_words' six substitutions.  For each pattern, XEnd(s, i) is the  *)
(* position where the pattern's match that starts at position i ends, or 0 *)
(* when the pattern does not match at i.  No pattern matches the empty     *)
(* string.                                                                 *)
(***************************************************************************)

\* \{\{[^}]+\}\} : the run [^}]+ ends at the first "}" and must not be empty
TemplateEnd(s, i) ==
  LET k == FirstIn(s, {"}"}, i + 2)
  IN  IF /\ StartsWithAt(s, <<"{", "{">>, i)
         /\ k >= i + 3
         /\ StartsWithAt(s, <<"}", "}">>, k)
      THEN k + 1 ELSE 0

\* \[\[(?:[^|\]]*\|)?([^\]]+)\]\] : group 1 ends at the first "]", which "]"
\* must follow; the optional target is taken when a "|" comes before that
\* "]" and leaves group 1 something, and is given up otherwise
LinkEnd(s, i) ==
  LET q == FirstIn(s, {"]"}, i + 2)
  IN  IF /\ StartsWithAt(s, <<"[", "[">>, i)
         /\ q >= i + 3
         /\ StartsWithAt(s, <<"]", "]">>, q)
      THEN q + 1 ELSE 0

\* r"\1" of the link pattern matched at i
LinkText(s, i) ==
  LET q == FirstIn(s, {"]"}, i + 2)
      p == FirstIn(s, {"|", "]"}, i + 2)
  IN  IF s[p] = "|" /\ q > p + 1
      THEN Slice(s, p + 1, q - 1)
      ELSE Slice(s, i + 2, q - 1)

\* <ref[^>]*>.*?</ref> with re.DOTALL : the tag ends at the first ">", the
\* span at the first </ref> after it
RefEnd(s, i) ==
  LET g == FirstIn(s, {">"}, i + 4)
      r == IF g = 0 THEN 0 ELSE FindFrom(s, REF_END, g + 1)
  IN  IF StartsWithAt(s, REF_START, i) /\ r # 0
      THEN r + Len(REF_END) - 1 ELSE 0

\* <[^>]+>
TagEnd(s, i) ==
  LET g == FirstIn(s, {">"}, i + 1)
  IN  IF s[i] = "<" /\ g >= i + 2 THEN g ELSE 0

\* http[s]?://\S+
UrlEnd(s, i) ==
  LET j == IF i + 4 <= Len(s) /\ s[i + 4] = "s" THEN i + 5 ELSE i + 4
      e == RunEnd(s, NonWhitespace, j + 3)
  IN  IF /\ StartsWithAt(s, HTTP, i)
         /\ StartsWithAt(s, COLON_SLASHES, j)
         /\ e >= j + 3
      THEN e ELSE 0

\* \[\[(?:Category|Thể loại|File|Tập tin):([^\]]+)\]\] : matched as written,
\* the call's fourth positional argument being count, not flags
CategoryEnd(s, i) ==
  LET K == {k \in 1..Len(CategoryKeywords) :
              StartsWithAt(s, CategoryKeywords[k] \o <<":">>, i + 2)}
      c == i + 2 + Len(CategoryKeywords[CHOOSE k \in K : TRUE])
      q == FirstIn(s, {"]"}, c + 1)
  IN  IF /\ StartsWithAt(s, <<"[", "[">>, i)
         /\ K # {}
         /\ q >= c + 2
         /\ StartsWithAt(s, <<"]", "]">>, q)
      THEN q + 1 ELSE 0

MatchEnd(pattern, s, i) ==
  CASE pattern = "template" -> TemplateEnd(s, i)
    [] pattern = "link" -> LinkEnd(s, i)
    [] pattern = "ref" -> RefEnd(s, i)
    [] pattern = "tag" -> TagEnd(s, i)
    [] pattern = "url" -> UrlEnd(s, i)
    [] pattern = "category" -> CategoryEnd(s, i)

\* the replacement: r"\1" for the link pattern, "" for the others
Replacement(pattern, s, i) ==
  IF pattern = "link" THEN LinkText(s, i) ELSE <<>>

\* re.sub(pattern, repl, s, count): the leftmost non-overlapping matches are
\* replaced, at most `count` of them when count is not 0.  `i` is the scan
\* position and `n` the number of replacements made so far.
RECURSIVE SubFrom(_, _, _, _, _)
SubFrom(pattern, s, count, i, n) ==
  IF i > Len(s) THEN <<>>
  ELSE IF count # 0 /\ n >= count THEN Slice(s, i, Len(s))
  ELSE LET e == MatchEnd(pattern, s, i)
       IN  IF e = 0
           THEN <<s[i]>> \o SubFrom(pattern, s, count, i + 1, n)
           ELSE Replacement(pattern, s, i)
                  \o SubFrom(pattern, s, count, e + 1, n + 1)

ReSub(pattern, s, count) == SubFrom(pattern, s, count, 1, 0)

\* re.IGNORECASE, which the last substitution passes in the place of count
IGNORECASE == 2

\* lines 38-55: the six substitutions in the order of the source
StripMarkup(text) ==
  LET t1 == ReSub("template", text, 0)
      t2 == ReSub("link", t1, 0)
      t3 == ReSub("ref", t2, 0)
      t4 == ReSub("tag", t3, 0)
      t5 == ReSub("url", t4, 0)
  IN  ReSub("category", t5, IGNORECASE)

\* [.!?;]\s+|\n+ : the end of the separator that starts at i, 0 when none
SeparatorEnd(s, i) ==
  IF /\ s[i] \in {".", "!", "?", ";"}
     /\ i + 1 <= Len(s)
     /\ s[i + 1] \in Whitespace
  THEN RunEnd(s, Whitespace, i + 1)
  ELSE IF s[i] = "\n"
  THEN RunEnd(s, {"\n"}, i)
  ELSE 0

\* re.split(sentence_pattern, text): `from` is where the current piece starts
RECURSIVE SplitFrom(_, _, _)
SplitFrom(s, from, i) ==
  IF i > Len(s) THEN <<Slice(s, from, Len(s))>>
  ELSE LET e == SeparatorEnd(s, i)
       IN  IF e = 0 THEN SplitFrom(s, from, i + 1)
           ELSE <<Slice(s, from, i - 1)>> \o SplitFrom(s, e + 1, e + 1)

Split(s) == SplitFrom(s, 1, 1)

\* a gate that lets every span with a letter through: what extract_words
\* would be without the diacritic test of line 68
HasWordCharacter(text) ==
  \E i \in 1..Len(text) : text[i] \in WordChars

\* lines 29-34
has_vietnamese_diacritic(text) ==
  \E i \in 1..Len(text) : Lower(text[i]) \in vietnamese_chars

\* re.findall(word_pattern, sentence): the maximal runs of word characters,
\* left to right
RECURSIVE FindAllFrom(_, _)
FindAllFrom(s, i) ==
  LET b == FirstIn(s, WordChars, i)
      e == RunEnd(s, WordChars, b)
  IN  IF i > Len(s) \/ b = 0 THEN <<>>
      ELSE <<Slice(s, b, e)>> \o FindAllFrom(s, e + 1)

FindAll(s) == FindAllFrom(s, 1)

\* the loop of lines 71-75 without the length test of line 74
RECURSIVE AddWordsAnyLength(_, _)
AddWordsAnyLength(meaningful_words, words) ==
  IF words = <<>> THEN meaningful_words
  ELSE AddWordsAnyLength(meaningful_words \cup {LowerStr(Head(words))},
                         Tail(words))

\* lines 71-75: the loop over one sentence's words
RECURSIVE AddWords(_, _)
AddWords(meaningful_words, words) ==
  IF words = <<>> THEN meaningful_words
  ELSE LET word_lower == LowerStr(Head(words))
       IN  AddWords(IF Len(word_lower) >= 2
                    THEN meaningful_words \cup {word_lower}
                    ELSE meaningful_words,
                    Tail(words))

\* lines 66-75: the loop over the sentences
RECURSIVE AddSentences(_, _)
AddSentences(meaningful_words, sentences) ==
  IF sentences = <<>> THEN meaningful_words
  ELSE AddSentences(IF has_vietnamese_diacritic(Head(sentences))
                    THEN AddWords(meaningful_words, FindAll(Head(sentences)))
                    ELSE meaningful_words,
                    Tail(sentences))

\* lines 36-77
extract_words(text) == AddSentences({}, Split(StripMarkup(text)))

(***************************************************************************)
(* Bounds of the model.                                                    *)
(***************************************************************************)
\* the line cap of line 157, which the source sets to 10000
MaxTextLines == 2
\* the longest dump the line-by-line specification reads
MaxLines == 7
\* the longest dump of the specification that fixes the dump
MaxDumpLen == 4
\* the most pieces of a text of the specification of extract_words
MaxPieces == 4
\* the longest spool of the specification of save_words
MaxSpoolLen == 4
\* the longest dump of the specification with title lines
MaxRecordLines == 5

(***************************************************************************)
(* The file system.  A file is its lines, without their line ends; a path  *)
(* that names no file has exists = FALSE.                                  *)
(***************************************************************************)
temp_file == "temp_words_all.txt"
sorted_file == "temp_words_all.txt.sorted"
DefaultOutput == "extracted_words.txt"

NoFile == [exists |-> FALSE, lines |-> <<>>]
File(lines) == [exists |-> TRUE, lines |-> lines]
Paths == {temp_file, sorted_file, DefaultOutput}

(***************************************************************************)
(* LC_ALL=C sort, sort -u and the streaming pass of save_words.            *)
(***************************************************************************)
\* memcmp order of two byte strings, a proper prefix first
RECURSIVE BytesLess(_, _)
BytesLess(a, b) ==
  IF b = <<>> THEN FALSE
  ELSE IF a = <<>> THEN TRUE
  ELSE IF Head(a) # Head(b) THEN Head(a) < Head(b)
  ELSE BytesLess(Tail(a), Tail(b))

LineLess(a, b) == BytesLess(Encode(a), Encode(b))

RECURSIVE InsertLine(_, _)
InsertLine(line, sorted) ==
  IF sorted = <<>> THEN <<line>>
  ELSE IF LineLess(line, Head(sorted)) THEN <<line>> \o sorted
  ELSE <<Head(sorted)>> \o InsertLine(line, Tail(sorted))

\* LC_ALL=C sort: the lines in ascending byte order, equal lines kept
RECURSIVE SortLines(_)
SortLines(lines) ==
  IF lines = <<>> THEN <<>>
  ELSE InsertLine(Head(lines), SortLines(Tail(lines)))

RECURSIVE DropAdjacent(_)
DropAdjacent(sorted) ==
  IF Len(sorted) < 2 THEN sorted
  ELSE IF sorted[1] = sorted[2] THEN DropAdjacent(Tail(sorted))
  ELSE <<Head(sorted)>> \o DropAdjacent(Tail(sorted))

\* sort without -u: equal lines are all kept
SortWithoutUnique(lines) == SortLines(lines)

\* uniq without sort: the lines stay in the order of the spool
UniqueWithoutSort(lines) == DropAdjacent(lines)

\* LC_ALL=C sort -u: of each run of equal lines, one
SortUniqueLines(lines) == DropAdjacent(SortLines(lines))

\* str.strip() of a line read with its line end
Strip(s) ==
  LET keep == {i \in 1..Len(s) : s[i] \notin Whitespace}
  IN  IF keep = {} THEN <<>>
      ELSE Slice(s, CHOOSE i \in keep : \A j \in keep : i <= j,
                    CHOOSE i \in keep : \A j \in keep : i >= j)

\* lines 232-238: prev_word is None before the first word, which no word
\* equals; the empty word, which is never kept, stands for it
RECURSIVE DedupFrom(_, _)
DedupFrom(lines, prev_word) ==
  IF lines = <<>> THEN <<>>
  ELSE LET word == Strip(Head(lines) \o <<"\n">>)
       IN  IF word # <<>> /\ word # prev_word
           THEN <<word>> \o DedupFrom(Tail(lines), word)
           ELSE DedupFrom(Tail(lines), prev_word)

StreamDedup(lines) == DedupFrom(lines, <<>>)

\* the orders in which "for word in words" may iterate a set
Orderings(words) ==
  {order \in [1..Cardinality(words) -> words] :
     \A i, j \in 1..Cardinality(words) : order[i] = order[j] => i = j}

(***************************************************************************)
(* The inputs.                                                             *)
(***************************************************************************)
BoundedSeq(S, n) == UNION {[1..k -> S] : k \in 0..n}

\* the lines a dump is made of here; each ends with its line end
PageStartLine ==
  <<"<", "p", "a", "g", "e", ">", "\n">>

PageEndLine ==
  <<"<", "/", "p", "a", "g", "e", ">", "\n">>

\* <text bytes=9>Xin chao. with the grave accent on the a
TextStartLine ==
  <<"<", "t", "e", "x", "t", " ", "b", "y", "t", "e", "s", "=", "9", ">",
    "X", "i", "n", " ", "c", "h", "a2", "o", ".", "\n">>

\* a line of a text field
TextLineLine ==
  <<"C", "h", "a2", "o", " ", "a", "n", "h", "\n">>

\* em a.</text> with the grave accent on the a
TextEndLine ==
  <<"e", "m", " ", "a2", ".", "<", "/", "t", "e", "x", "t", ">", "\n">>

\* <title>Hà Nội</title>: a line of a record outside its text field
TitleLine ==
  <<"<", "t", "i", "t", "l", "e", ">", "H", "a2", " ", "N", "o65", "i", "<",
    "/", "t", "i", "t", "l", "e", ">", "\n">>

\* the spec's Scenario A: the four markers on one line
ScenarioALine ==
  <<"<", "p", "a", "g", "e", ">", "<", "t", "e", "x", "t", ">", "X", "i",
    "n", " ", "c", "h", "a2", "o", ".", " ", "H", "e", "l", "l", "o", " ",
    "w", "o", "r", "l", "d", ".", "<", "/", "t", "e", "x", "t", ">", "<",
    "/", "p", "a", "g", "e", ">", "\n">>

\* words
word_anh ==
  <<"a", "n", "h">>

word_em ==
  <<"e", "m">>

word_chao ==
  <<"c", "h", "a2", "o">>

word_xin ==
  <<"x", "i", "n">>

word_am ==
  <<"a61", "m">>


(***************************************************************************)
(* parse_dump_regex, lines 79-170.                                         *)
(***************************************************************************)
NoCall == [called |-> FALSE, text |-> <<>>, words |-> {}, lines |-> 0,
           oversized |-> FALSE, after_cap |-> FALSE]

\* lines 22-27 with the spool opened in mode "w": each record's words replace
\* the spool
write_words_truncating(words) ==
  /\ \E order \in Orderings(words) :
       files' = [files EXCEPT ![temp_file] = File(order)]
  /\ total_words_written' = total_words_written + Cardinality(words)

\* lines 22-27 writing only the words the spool does not hold yet
write_new_words_only(words) ==
  LET new_words ==
        words \ {files[temp_file].lines[i] :
                    i \in 1..Len(files[temp_file].lines)}
  IN  /\ \E order \in Orderings(new_words) :
           files' = [files EXCEPT ![temp_file] = File(@.lines \o order)]
      /\ total_words_written' = total_words_written + Cardinality(new_words)

\* lines 22-27: the words are appended in the order the set iterates
write_words_to_file(words) ==
  /\ \E order \in Orderings(words) :
       files' = [files EXCEPT ![temp_file] = File(@.lines \o order)]
  /\ total_words_written' = total_words_written + Cardinality(words)

\* lines 109-112 without the reset of line 112: the line counter of the
\* record before carries over
PageStartKeepingCount ==
  /\ in_page' = TRUE
  /\ current_text' = <<>>
  /\ cap_hit' = FALSE
  /\ after_cap' = cap_hit
  /\ UNCHANGED <<in_text, text_lines, counters, files, emitted>>

\* lines 109-112
PageStart ==
  /\ in_page' = TRUE
  /\ current_text' = <<>>
  /\ text_lines' = 0
  /\ cap_hit' = FALSE
  /\ after_cap' = cap_hit
  /\ UNCHANGED <<in_text, counters, files, emitted>>

\* lines 113-135 (the progress report of lines 131-135 changes nothing)
PageEnd ==
  /\ in_page' = FALSE
  /\ UNCHANGED <<in_text, cap_hit, after_cap>>
  /\ IF current_text # <<>>
     THEN LET text == Join(current_text)
              words == extract_words(text)
          IN  /\ articles_processed' = articles_processed + 1
              /\ emitted' = [called |-> TRUE, text |-> text, words |-> words,
                             lines |-> Len(current_text),
                             oversized |-> cap_hit,
                             after_cap |-> after_cap]
              /\ IF words # {}
                 THEN /\ articles_matched' = articles_matched + 1
                      /\ write_words_to_file(words)
                 ELSE UNCHANGED <<articles_matched, total_words_written,
                                  files>>
              /\ current_text' = <<>>
              /\ text_lines' = 0
     ELSE UNCHANGED <<current_text, text_lines, counters, files, emitted>>

\* re.search(r"<text[^>]*>(.*)", line, re.DOTALL): where group 1 starts, 0
\* when the first <text of the line is followed by no ">"
TextStartGroup(line) ==
  LET g == FirstIn(line, {">"}, FindFrom(line, TEXT_START, 1) + Len(TEXT_START))
  IN  IF g = 0 THEN 0 ELSE g + 1

\* lines 139-145
TextStart(line) ==
  /\ in_text' = TRUE
  /\ IF TextStartGroup(line) # 0
     THEN /\ current_text' =
               Append(current_text,
                      Slice(line, TextStartGroup(line), Len(line)))
          /\ text_lines' = text_lines + 1
     ELSE UNCHANGED <<current_text, text_lines>>
  /\ UNCHANGED <<in_page, counters, files, emitted, cap_hit, after_cap>>

\* lines 146-151: (.*)</text> takes the line up to its last </text>
TextEnd(line) ==
  /\ current_text' =
       Append(current_text,
              Slice(line, 1, FindLast(line, TEXT_END, Len(line)) - 1))
  /\ in_text' = FALSE
  /\ UNCHANGED <<in_page, text_lines, counters, files, emitted, cap_hit,
                 after_cap>>

\* lines 152-159
TextLine(line) ==
  /\ text_lines' = text_lines + 1
  /\ IF text_lines + 1 > MaxTextLines
     THEN /\ in_text' = FALSE
          /\ current_text' = <<>>
          /\ cap_hit' = TRUE
     ELSE /\ current_text' = Append(current_text, line)
          /\ UNCHANGED <<in_text, cap_hit>>
  /\ UNCHANGED <<in_page, counters, files, emitted, after_cap>>

\* a line that no branch of the loop body acts on
SkipLine ==
  UNCHANGED <<parser, counters, files, emitted, cap_hit, after_cap>>

\* lines 108-159: the body of the loop for one line
HandleLine(line) ==
  IF Contains(line, PAGE_START) THEN PageStart
  ELSE IF Contains(line, PAGE_END) /\ in_page THEN PageEnd
  ELSE IF in_page
  THEN IF Contains(line, TEXT_START) THEN TextStart(line)
       ELSE IF Contains(line, TEXT_END) THEN TextEnd(line)
       ELSE IF in_text THEN TextLine(line)
       ELSE SkipLine
  ELSE SkipLine

\* lines 85-92
ClearTemp ==
  /\ pc = "start"
  /\ files' = [files EXCEPT ![temp_file] = NoFile]
  /\ articles_processed' = 0
  /\ articles_matched' = 0
  /\ pc' = "open"
  /\ UNCHANGED <<output_file, dump, consumed, parser, total_words_written,
                 history>>

\* lines 95-105
OpenDump ==
  /\ pc = "open"
  /\ in_page' = FALSE
  /\ in_text' = FALSE
  /\ current_text' = <<>>
  /\ text_lines' = 0
  /\ pc' = "loop"
  /\ UNCHANGED <<output_file, files, dump, consumed, counters, history>>

\* a missing or unreadable dump found out only by a read of the loop, after
\* any number of lines
OpenFailsInLoop ==
  /\ pc = "loop"
  /\ pc' = "raised"
  /\ exception' = "open"
  /\ UNCHANGED <<output_file, files, dump, consumed, parser, counters,
                 emitted, cap_hit, after_cap, spooled, run, first_run,
                 files_before>>

\* lines 95-99 raise (no such file, not readable); lines 168-170 re-raise
\* and main ends with the exception
OpenFails ==
  /\ pc = "open"
  /\ pc' = "raised"
  /\ exception' = "open"
  /\ UNCHANGED <<output_file, files, dump, consumed, parser, counters,
                 emitted, cap_hit, after_cap, spooled, run, first_run,
                 files_before>>

\* line 107: the loop consumes one line, `lines` being what the dump may hold
\* there
Read(lines) ==
  /\ pc = "loop"
  /\ \E line \in lines : HandleLine(line)
  /\ consumed' = consumed + 1
  /\ UNCHANGED <<pc, output_file, dump, spooled, run, first_run, exception,
                 files_before>>

\* line 107 raises and lines 168-170 print the error without raising it
\* again: parse_dump returns
ReadErrorSwallowed ==
  /\ pc = "loop"
  /\ pc' = "parsed"
  /\ exception' = "read"
  /\ UNCHANGED <<output_file, files, dump, consumed, parser, counters,
                 emitted, cap_hit, after_cap, spooled, run, first_run,
                 files_before>>

\* line 107 raises while reading or decoding; lines 168-170 re-raise
ReadFails ==
  /\ pc = "loop"
  /\ pc' = "raised"
  /\ exception' = "read"
  /\ UNCHANGED <<output_file, files, dump, consumed, parser, counters,
                 emitted, cap_hit, after_cap, spooled, run, first_run,
                 files_before>>

\* lines 161-166: the dump is exhausted and parse_dump returns
EndOfDump ==
  /\ pc = "loop"
  /\ pc' = "parsed"
  /\ UNCHANGED <<output_file, files, dump, consumed, parser, counters,
                 history>>

(***************************************************************************)
(* save_words(output_file), lines 176-243, step by step: each step is one  *)
(* change of the file system.                                              *)
(***************************************************************************)
unchanged_by_save ==
  UNCHANGED <<output_file, dump, consumed, parser, counters, emitted, cap_hit,
              after_cap, run, first_run, files_before>>

\* lines 181-183
NoTempFile ==
  /\ pc = "parsed"
  /\ ~files[temp_file].exists
  /\ pc' = "done"
  /\ UNCHANGED <<files, spooled>>
  /\ UNCHANGED exception
  /\ unchanged_by_save

\* lines 191-198: sort -u writes the sorted file
SortUnique ==
  /\ pc = "parsed"
  /\ files[temp_file].exists
  /\ spooled' = files[temp_file].lines
  /\ files' = [files EXCEPT
                 ![sorted_file] = File(SortUniqueLines(files[temp_file].lines))]
  /\ pc' = "sorted"
  /\ UNCHANGED exception
  /\ unchanged_by_save

\* lines 194-198 raise CalledProcessError: the shell has created the sorted
\* file and sort has failed
SortUniqueFails ==
  /\ pc = "parsed"
  /\ files[temp_file].exists
  /\ spooled' = files[temp_file].lines
  /\ files' = [files EXCEPT ![sorted_file] = File(<<>>)]
  /\ pc' = "fallback"
  /\ UNCHANGED exception
  /\ unchanged_by_save

\* lines 200-209: os.rename(sorted_file, output_file)
RenameSorted ==
  /\ pc = "sorted"
  /\ files' = [p \in Paths |->
                 IF p = output_file THEN files[sorted_file]
                 ELSE IF p = sorted_file THEN NoFile
                 ELSE files[p]]
  /\ pc' = "renamed"
  /\ UNCHANGED spooled
  /\ UNCHANGED exception
  /\ unchanged_by_save

\* lines 211-214: os.remove(self.temp_file)
RemoveTemp ==
  /\ pc = "renamed"
  /\ files' = [files EXCEPT ![temp_file] = NoFile]
  /\ pc' = "done"
  /\ UNCHANGED spooled
  /\ UNCHANGED exception
  /\ unchanged_by_save

\* lines 219-226: the plain sort writes the sorted file
SortPlain ==
  /\ pc = "fallback"
  /\ files' = [files EXCEPT
                 ![sorted_file] = File(SortLines(files[temp_file].lines))]
  /\ pc' = "fallback_sorted"
  /\ UNCHANGED spooled
  /\ UNCHANGED exception
  /\ unchanged_by_save

\* the plain sort fails and the list is made from a set of the spool's lines
\* held in memory, as get_unique_words would collect them
SortPlainFailsInMemory ==
  /\ pc = "fallback"
  /\ pc' = "done"
  /\ exception' = "sort"
  /\ files' = [files EXCEPT
                 ![output_file] = File(SortUniqueLines(files[temp_file].lines))]
  /\ UNCHANGED spooled
  /\ unchanged_by_save

\* lines 222-226 raise CalledProcessError, which nothing catches
SortPlainFails ==
  /\ pc = "fallback"
  /\ pc' = "raised"
  /\ exception' = "sort"
  /\ UNCHANGED <<files, spooled>>
  /\ unchanged_by_save

\* lines 229-240: open(output_file, "w") and the streaming pass
WriteDeduplicated ==
  /\ pc = "fallback_sorted"
  /\ files' = [files EXCEPT
                 ![output_file] = File(StreamDedup(files[sorted_file].lines))]
  /\ pc' = "fallback_written"
  /\ UNCHANGED spooled
  /\ UNCHANGED exception
  /\ unchanged_by_save

\* lines 241-243: os.remove(sorted_file); os.remove(self.temp_file)
RemoveSortedAndTemp ==
  /\ pc = "fallback_written"
  /\ files' = [files EXCEPT ![sorted_file] = NoFile, ![temp_file] = NoFile]
  /\ pc' = "done"
  /\ UNCHANGED spooled
  /\ UNCHANGED exception
  /\ unchanged_by_save

SaveWords ==
  \/ NoTempFile
  \/ SortUnique
  \/ SortUniqueFails
  \/ RenameSorted
  \/ RemoveTemp
  \/ SortPlain
  \/ SortPlainFails
  \/ WriteDeduplicated
  \/ RemoveSortedAndTemp

(***************************************************************************)
(* main, lines 262-274, on a dump whose lines are not fixed in advance:    *)
(* each turn of the loop may meet any line of InputLines, and the dump may *)
(* end anywhere.                                                           *)
(***************************************************************************)
InputLines ==
  {PageStartLine, PageEndLine, TextStartLine, TextLineLine, TextEndLine}

\* sys.argv[2]: the default, or the name the extractor gives its spool
OutputFiles == {DefaultOutput, temp_file}

\* what an earlier run may have left: nothing, or an unfinished spool and a
\* word list
FreshFiles == [p \in Paths |-> NoFile]
StaleFiles ==
  [p \in Paths |-> IF p = sorted_file THEN NoFile ELSE File(<<word_anh>>)]

\* line 20, lines 91-92, and the history before anything has happened
InitCounters ==
  /\ articles_processed = 0
  /\ articles_matched = 0
  /\ total_words_written = 0
  /\ emitted = NoCall
  /\ cap_hit = FALSE
  /\ after_cap = FALSE
  /\ spooled = <<>>
  /\ run = 1
  /\ first_run = [output |-> NoFile, spooled |-> <<>>]
  /\ exception = "none"

\* the loop's variables have no value before lines 102-105: the values these
\* lines give them stand for it
NotInLoop ==
  /\ consumed = 0
  /\ in_page = FALSE
  /\ in_text = FALSE
  /\ current_text = <<>>
  /\ text_lines = 0

Init ==
  /\ InitCounters
  /\ NotInLoop
  /\ pc = "start"
  /\ output_file \in OutputFiles
  /\ files \in {FreshFiles, StaleFiles}
  /\ files_before = files
  /\ dump = <<>>

ReadLine == consumed < MaxLines /\ Read(InputLines)

Next ==
  \/ ClearTemp
  \/ OpenDump
  \/ OpenFails
  \/ ReadLine
  \/ ReadFails
  \/ EndOfDump
  \/ SaveWords

Spec == Init /\ [][Next]_vars

(***************************************************************************)
(* main run twice on one and the same dump, whose lines are fixed at the   *)
(* start.                                                                  *)
(***************************************************************************)
DumpLines ==
  {PageStartLine, PageEndLine, TextStartLine, TextEndLine, ScenarioALine}

InitDump ==
  /\ InitCounters
  /\ NotInLoop
  /\ pc = "start"
  /\ output_file \in OutputFiles
  /\ files = FreshFiles
  /\ files_before = files
  /\ dump \in BoundedSeq(DumpLines, MaxDumpLen)

ReadDump == consumed < Len(dump) /\ Read({dump[consumed + 1]})

\* the loop left before the dump is exhausted
EndOfLoopAnywhere == EndOfDump

EndOfFixedDump == consumed = Len(dump) /\ EndOfDump

\* main is started again on the same dump, with the same arguments: line 270
\* makes a new extractor
RunAgain ==
  /\ pc = "done"
  /\ run = 1
  /\ run' = 2
  /\ first_run' = [output |-> files[output_file], spooled |-> spooled]
  /\ pc' = "start"
  /\ consumed' = 0
  /\ total_words_written' = 0
  /\ emitted' = NoCall
  /\ cap_hit' = FALSE
  /\ after_cap' = FALSE
  /\ spooled' = <<>>
  /\ files_before' = files
  /\ UNCHANGED <<output_file, files, dump, parser, articles_processed,
                 articles_matched, exception>>

NextDump ==
  \/ ClearTemp
  \/ OpenDump
  \/ OpenFails
  \/ ReadDump
  \/ ReadFails
  \/ EndOfFixedDump
  \/ SaveWords
  \/ RunAgain

SpecDump == InitDump /\ [][NextDump]_vars

(***************************************************************************)
(* extract_words on the texts made of at most MaxPieces pieces: the parser *)
(* has read <page> and the line <text> followed by the text, and reads     *)
(* </page> next.                                                           *)
(***************************************************************************)
TextPieces ==
  { <<"a", "b">>, <<"a2">>, <<"A2">>, <<"D9">>, <<"1">>, <<".", " ">>,
    <<"[", "[">>, <<"]", "]">> }

Texts == {Join(pieces) : pieces \in BoundedSeq(TextPieces, MaxPieces)}

InitExtract ==
  /\ InitCounters
  /\ output_file = DefaultOutput
  /\ files = FreshFiles
  /\ files_before = files
  /\ \E text \in Texts :
       /\ dump = <<PageStartLine,
                   TEXT_START \o <<">">> \o text \o <<"\n">>,
                   PageEndLine>>
       /\ pc = "loop"
       /\ consumed = 2
       /\ in_page = TRUE
       /\ in_text = TRUE
       /\ current_text = <<text \o <<"\n">>>>
       /\ text_lines = 1

NextExtract == ReadDump \/ EndOfFixedDump \/ SaveWords

SpecExtract == InitExtract /\ [][NextExtract]_vars

(***************************************************************************)
(* extract_words on texts that hold a category or file link                *)
(* [[Keyword:Name]], the keyword as the source writes it or in lower case, *)
(* alone or between two sentences.                                         *)
(***************************************************************************)
LinkKeywords ==
  {CategoryKeywords[k] : k \in 1..Len(CategoryKeywords)}
    \cup {LowerStr(CategoryKeywords[k]) : k \in 1..Len(CategoryKeywords)}

\* Hà, ab
LinkNames == { <<"H", "a2">>, <<"a", "b">> }

TextsBefore == { <<>>, <<"X", "i", "n", " ", "c", "h", "a2", "o", ".", " ">> }
TextsAfter == { <<>>, <<" ", "e", "m">> }

CategoryTexts ==
  {before \o <<"[", "[">> \o keyword \o <<":">> \o name \o <<"]", "]">>
     \o after :
     before \in TextsBefore, keyword \in LinkKeywords, name \in LinkNames,
     after \in TextsAfter}

InitCategory ==
  /\ InitCounters
  /\ output_file = DefaultOutput
  /\ files = FreshFiles
  /\ files_before = files
  /\ \E text \in CategoryTexts :
       /\ dump = <<PageStartLine,
                   TEXT_START \o <<">">> \o text \o <<"\n">>,
                   PageEndLine>>
       /\ pc = "loop"
       /\ consumed = 2
       /\ in_page = TRUE
       /\ in_text = TRUE
       /\ current_text = <<text \o <<"\n">>>>
       /\ text_lines = 1

SpecCategory == InitCategory /\ [][NextExtract]_vars

(***************************************************************************)
(* The loop and save_words on the dumps of at most MaxRecordLines lines    *)
(* whose records have title lines: the dump has been opened.               *)
(***************************************************************************)
RecordLines ==
  {PageStartLine, PageEndLine, TextStartLine, TextEndLine, TitleLine}

InitRecords ==
  /\ InitCounters
  /\ NotInLoop
  /\ pc = "loop"
  /\ output_file = DefaultOutput
  /\ files = FreshFiles
  /\ files_before = files
  /\ dump \in BoundedSeq(RecordLines, MaxRecordLines)

SpecRecords == InitRecords /\ [][NextExtract]_vars

(***************************************************************************)
(* save_words on the spools of at most MaxSpoolLen words: parse_dump has   *)
(* returned.                                                               *)
(***************************************************************************)
SpoolWords == {word_anh, word_em, word_am}

InitDedup ==
  /\ InitCounters
  /\ NotInLoop
  /\ output_file \in OutputFiles
  /\ dump = <<>>
  /\ \E lines \in BoundedSeq(SpoolWords, MaxSpoolLen) :
       files = [FreshFiles EXCEPT
                  ![temp_file] = IF lines = <<>> THEN NoFile ELSE File(lines)]
  /\ files_before = files
  /\ pc = "parsed"

SpecDedup == InitDedup /\ [][SaveWords]_vars

(***************************************************************************)
(* save_words on a temp_words_all.txt of any lines, as save_words called   *)
(* without a parse phase before it finds it: words, a blank line, a line   *)
(* that begins with a space.                                               *)
(***************************************************************************)
SpoolLines == {word_anh, word_em, <<>>, <<" ", "e", "m">>}

InitAnySpool ==
  /\ InitCounters
  /\ NotInLoop
  /\ output_file = DefaultOutput
  /\ dump = <<>>
  /\ \E lines \in BoundedSeq(SpoolLines, MaxSpoolLen) :
       files = [FreshFiles EXCEPT
                  ![temp_file] = IF lines = <<>> THEN NoFile ELSE File(lines)]
  /\ files_before = files
  /\ pc = "parsed"

SpecAnySpool == InitAnySpool /\ [][SaveWords]_vars
(***************************************************************************)
(* The claims.                                                             *)
(***************************************************************************)
LinesOf(path) == {files[path].lines[i] : i \in 1..Len(files[path].lines)}

StrictlyAscending(lines) ==
  \A i \in 1..(Len(lines) - 1) : LineLess(lines[i], lines[i + 1])

\* C1: once parse_dump and save_words(output_file) have completed, the output
\* file exists and its lines are in strictly ascending byte order, none of
\* them blank, also when no token was extracted.
C1_OutputExistsSortedUnique ==
  pc = "done" =>
    /\ files[output_file].exists
    /\ StrictlyAscending(files[output_file].lines)
    /\ <<>> \notin LinesOf(output_file)

\* save_words has written the word list: by the rename of line 209, or by the
\* streaming pass of lines 230-238; nothing changes it afterwards unless the
\* output file is the spool itself, which lines 212 and 242 remove
WordListWritten ==
  \/ pc \in {"renamed", "fallback_written"}
  \/ pc = "done" /\ spooled # <<>> /\ output_file # temp_file

\* C2: the word list save_words writes holds exactly the distinct lines of the
\* spool it found, each of them once.
C2_DistinctSpoolLines ==
  WordListWritten =>
    LET out == files[output_file].lines
    IN  /\ files[output_file].exists
        /\ \A i, j \in 1..Len(out) : out[i] = out[j] => i = j
        /\ {out[i] : i \in 1..Len(out)} = {spooled[i] : i \in 1..Len(spooled)}

\* C2, reached: the spool of Scenario C, [anh, anh, em, anh], has become the
\* word list [anh, em]
C2_ScenarioC ==
  /\ pc = "done"
  /\ spooled = <<word_anh, word_anh, word_em, word_anh>>
  /\ files[DefaultOutput] = File(<<word_anh, word_em>>)
  /\ output_file = DefaultOutput

\* C3: a record whose text field ran over the line cap contributes no token:
\* if extract_words is called for it at all, it returns no word.
C3_OversizedRecordNoTokens ==
  (emitted.called /\ emitted.oversized) => emitted.words = {}

\* the state of the loop right after the first <page> of a dump
AtRecordStart ==
  /\ in_page
  /\ ~in_text
  /\ current_text = <<>>
  /\ text_lines = 0

C5_ScenarioA ==
  (dump = <<ScenarioALine>> /\ output_file = DefaultOutput /\ pc = "done")
    => files[DefaultOutput] = File(<<word_chao, word_xin>>)

\* a character of the diacritic alphabet, in either case
ContainsDiacritic(span) ==
  \E i \in 1..Len(span) :
    span[i] \in vietnamese_chars
      \/ (span[i] \in DOMAIN LowerTable /\ LowerTable[span[i]] \in vietnamese_chars)

\* C6: every word extract_words returns was matched, as a maximal run of word
\* characters, inside a span of the sentence split that holds a character of
\* the diacritic alphabet; a span without one contributes nothing.
C6_TokensFromQualifyingSpans ==
  emitted.called =>
    LET spans == Split(StripMarkup(emitted.text))
    IN  \A word \in emitted.words :
          \E k \in 1..Len(spans) :
            /\ ContainsDiacritic(spans[k])
            /\ \E m \in 1..Len(FindAll(spans[k])) :
                 LowerStr(FindAll(spans[k])[m]) = word

\* C6, reached: of the text "ab. a2ab" the first span, without a diacritic,
\* gave nothing and the second gave its word
C6_SpanDropped ==
  /\ emitted.called
  /\ emitted.text = <<"a", "b", ".", " ", "a2", "a", "b", "\n">>
  /\ emitted.words = {<<"a2", "a", "b">>}

\* a token: at least two characters, each a lower-case letter of the word
\* pattern
IsToken(line) ==
  /\ Len(line) >= 2
  /\ \A i \in 1..Len(line) :
       /\ line[i] \in WordChars
       /\ line[i] \notin AsciiUpper \cup {"D9"}

\* C7: every word extract_words returns, every line of the spool and every
\* line of the sorted file and of the output file is a token.
C7_TokensWellFormed ==
  \A line \in emitted.words \cup LinesOf(temp_file) \cup LinesOf(sorted_file)
                \cup LinesOf(output_file) : IsToken(line)

\* C7, reached: the text "D9ab1a2" has gone through the whole run, and the
\* word list holds its one token
C7_TokenWritten ==
  /\ pc = "done"
  /\ emitted.text = <<"D9", "a", "b", "1", "a2", "\n">>
  /\ files[DefaultOutput] = File(<< <<"d9", "a", "b">> >>)

\* C8: whenever extract_words is called, the accumulator holds at most
\* MaxTextLines lines.
C8_AccumulatorWithinCap ==
  emitted.called => emitted.lines <= MaxTextLines

\* C9: the second run of main on the same dump leaves the output file as the
\* first run left it, whatever the orders in which the word sets were written
\* to the spool.
C9_SameOutputTwice ==
  (run = 2 /\ pc = "done") => files[output_file] = first_run.output

\* C9, reached: the two runs spooled the same words in different orders and
\* wrote the same word list of two words
C9_OrdersDiffer ==
  /\ run = 2
  /\ pc = "done"
  /\ spooled # first_run.spooled
  /\ files[DefaultOutput] = File(<<word_chao, word_xin>>)
  /\ first_run.output = File(<<word_chao, word_xin>>)

\* C10: during parse_dump an existing spool file is neither removed nor
\* truncated (the caller has passed no choice to clear it: parse_dump takes
\* none).
C10_SpoolKeptByParse ==
  [][(pc \in {"start", "open", "loop"} /\ files[temp_file].exists)
       => /\ files'[temp_file].exists
          /\ Len(files'[temp_file].lines) >= Len(files[temp_file].lines)
          /\ SubSeq(files'[temp_file].lines, 1, Len(files[temp_file].lines))
               = files[temp_file].lines]_vars

\* what the spool holds after the step, beyond what it held before
AppendedBlock ==
  SubSeq(files'[temp_file].lines, Len(files[temp_file].lines) + 1,
         Len(files'[temp_file].lines))

\* C11: during the parse phase the file system changes only by an append to
\* the spool: what the spool held stays as a prefix, and what is appended is
\* one block holding the words of the record that has just ended (the step
\* consumes its </page>), each of them once, so that the blocks follow each
\* other in the order the records end and no two are interleaved.
C11_SpoolAppendOnly ==
  [][(pc = "loop" /\ files' # files) =>
       /\ \A p \in Paths \ {temp_file} : files'[p] = files[p]
       /\ files'[temp_file].exists
       /\ Len(files'[temp_file].lines) > Len(files[temp_file].lines)
       /\ SubSeq(files'[temp_file].lines, 1, Len(files[temp_file].lines))
            = files[temp_file].lines
       /\ in_page /\ ~in_page'
       /\ articles_processed' = articles_processed + 1
       /\ {AppendedBlock[i] : i \in 1..Len(AppendedBlock)} = emitted'.words
       /\ Len(AppendedBlock) = Cardinality(emitted'.words)]_vars

\* C11, reached: the spool holds the block of a first record, {xin, chao},
\* followed by the block of a second, {em}
C11_TwoBlocks ==
  /\ pc = "loop"
  /\ articles_matched = 2
  /\ Len(files[temp_file].lines) = 3
  /\ {files[temp_file].lines[1], files[temp_file].lines[2]}
       = {word_xin, word_chao}
  /\ files[temp_file].lines[3] = word_em
  /\ emitted.words = {word_em}

\* parse_dump has returned, and save_words may have begun
ParseReturned ==
  pc \in {"parsed", "sorted", "renamed", "fallback", "fallback_sorted",
          "fallback_written", "done"}

\* C12: in every run of main on a dump, save_words finds, sorts or reads the
\* spool only when the loop of parse_dump has consumed every line of the dump
\* and parse_dump has returned without an exception; the spool is closed
\* then, write_words_to_file closing it at the end of each block.
C12_DedupAfterParse ==
  (ParseReturned \/ spooled # <<>>) =>
    /\ consumed = Len(dump)
    /\ exception \notin {"open", "read"}
    /\ pc \notin {"start", "open", "loop"}

\* C12, reached: sort -u has read the spool of three words after the four
\* lines of the dump were consumed
C12_SortedAfterWholeDump ==
  /\ pc = "sorted"
  /\ dump = <<PageStartLine, TextStartLine, TextEndLine, PageEndLine>>
  /\ consumed = 4
  /\ Len(spooled) = 3
  /\ files[temp_file].lines = spooled

\* C13: when reading or decoding the dump has raised, after any number of
\* records, the run has ended with the exception: save_words has not found,
\* sorted or read the spool, and the output file (a path other than the
\* spool's) is as it was when the run started, absent or unchanged.
C13_ReadErrorAborts ==
  exception = "read" =>
    /\ pc = "raised"
    /\ spooled = <<>>
    /\ files[sorted_file] = files_before[sorted_file]
    /\ output_file # temp_file =>
         files[output_file] = files_before[output_file]

\* C13, reached: the read has failed after two words were spooled, and the
\* word list of an earlier run is untouched
C13_RaisedAfterSpooling ==
  /\ exception = "read"
  /\ pc = "raised"
  /\ articles_matched = 1
  /\ Len(files[temp_file].lines) = 2
  /\ output_file = DefaultOutput
  /\ files[DefaultOutput] = File(<<word_anh>>)

\* C14: when sort -u has failed and the plain sort has failed too, save_words
\* has not returned: the CalledProcessError of the second sort has left it,
\* and the output file has not been written, from a set in memory or
\* otherwise; the spool is still there.
C14_NoSortIsFatal ==
  exception = "sort" =>
    /\ pc = "raised"
    /\ files[temp_file] = files_before[temp_file]
    /\ output_file # temp_file =>
         files[output_file] = files_before[output_file]

\* C14, reached: both sorts have failed on the spool [anh, anh, em]
C14_BothSortsFailed ==
  /\ exception = "sort"
  /\ pc = "raised"
  /\ spooled = <<word_anh, word_anh, word_em>>
  /\ output_file = DefaultOutput
  /\ ~files[DefaultOutput].exists

C16_OpenErrorBeforeRecords ==
  exception = "open" =>
    /\ pc = "raised"
    /\ consumed = 0
    /\ ~emitted.called
    /\ ~files[temp_file].exists
    /\ articles_processed = 0
    /\ articles_matched = 0
    /\ total_words_written = 0

\* C16, reached: the open has failed in a directory that held the list of an
\* earlier run, which is untouched
C16_OpenFailed ==
  /\ exception = "open"
  /\ pc = "raised"
  /\ output_file = DefaultOutput
  /\ files_before[DefaultOutput].exists
  /\ files[DefaultOutput] = files_before[DefaultOutput]

\* C17: the step in which the line counter passes the cap abandons the
\* record: after it the accumulator is empty, the line counter is 0 and the
\* parser is neither in a record nor in a text field; and the record-end
\* marker of that record, read later, calls extract_words for nothing.
C17_CapAbandonsRecord ==
  [][(pc = "loop" /\ pc' = "loop") =>
       /\ (~cap_hit /\ cap_hit') =>
            /\ current_text' = <<>>
            /\ text_lines' = 0
            /\ ~in_page'
            /\ ~in_text'
       /\ (cap_hit /\ cap_hit' /\ in_page /\ ~in_page') =>
            articles_processed' = articles_processed]_vars

\* C18: a step that consumes a line holding </page> (and no <page>) while the
\* parser is in a record leaves it neither in a record nor in a text field,
\* with an empty accumulator, and calls extract_words, once and on the joined
\* accumulator, exactly when the accumulator held something; consumed outside
\* a record, such a line changes nothing.
C18_RecordEnd ==
  [][(pc = "loop" /\ consumed' = consumed + 1
        /\ Contains(dump[consumed + 1], PAGE_END)
        /\ ~Contains(dump[consumed + 1], PAGE_START)) =>
       IF in_page
       THEN /\ ~in_page'
            /\ ~in_text'
            /\ current_text' = <<>>
            /\ IF current_text # <<>>
               THEN /\ articles_processed' = articles_processed + 1
                    /\ emitted'.called
                    /\ emitted'.text = Join(current_text)
               ELSE /\ articles_processed' = articles_processed
                    /\ emitted' = emitted
       ELSE UNCHANGED <<parser, counters, files, emitted>>]_vars

\* how many lines of the spool are the word
Occurrences(word, lines) ==
  Cardinality({i \in 1..Len(lines) : lines[i] = word})

\* C19: the block a record appends to the spool holds no word twice, and it
\* holds every word of the record, also those an earlier record has spooled
\* already: each word of the record is in the spool once more than before.
C19_OncePerRecord ==
  [][(pc = "loop" /\ files'[temp_file] # files[temp_file]) =>
       /\ \A i, j \in 1..Len(AppendedBlock) :
            AppendedBlock[i] = AppendedBlock[j] => i = j
       /\ emitted'.words # {}
       /\ \A word \in emitted'.words :
            Occurrences(word, files'[temp_file].lines)
              = Occurrences(word, files[temp_file].lines) + 1]_vars

\* C19, reached: the second record, whose text holds chao twice, has
\* appended its three words once each, after a first record that had spooled
\* xin and chao: the spool holds chao twice
C19_AcrossRecords ==
  /\ articles_matched = 2
  /\ emitted.words = {word_xin, word_chao, word_anh}
  /\ Len(FindAll(emitted.text)) = 4
  /\ Len(files[temp_file].lines) = 5
  /\ Occurrences(word_chao, files[temp_file].lines) = 2
  /\ Occurrences(word_anh, files[temp_file].lines) = 1

\* the text holds a link [[Keyword:..., the keyword in any letter case
HasCategoryLink(text) ==
  \E i \in 1..Len(text) : \E k \in 1..Len(CategoryKeywords) :
    StartsWithAt(LowerStr(text),
                 <<"[", "[">> \o LowerStr(CategoryKeywords[k]) \o <<":">>, i)

\* C20: of a text with a category or file link [[Keyword:Name]], the keyword
\* in any letter case, the stripped text holds neither the keyword nor the
\* name, and no word comes from them: the words are those of the sentences
\* around the link.
C20_CategoryLinksRemoved ==
  (emitted.called /\ HasCategoryLink(emitted.text)) =>
    LET stripped == LowerStr(StripMarkup(emitted.text))
    IN  /\ \A k \in 1..Len(CategoryKeywords) :
             ~Contains(stripped, LowerStr(CategoryKeywords[k]))
        /\ \A name \in LinkNames : ~Contains(stripped, LowerStr(name))
        /\ emitted.words \subseteq {word_xin, word_chao, word_em}

\* C21: after any sequence of lines the parser is in one of Idle (in no
\* record, in no text field), InRecord and InTextField: the in-text flag is
\* not set while the in-record flag is clear.
C21_ThreeStates ==
  pc = "loop" => (in_text => in_page)

\* where the first k lines of the dump leave a parser of three states that
\* follows the markers: a record begins at <page> and ends at </page>, its
\* text field begins at <text and ends at </text>
RECURSIVE MarkerState(_)
MarkerState(k) ==
  IF k = 0 THEN "Idle"
  ELSE LET line == dump[k]
           before == MarkerState(k - 1)
       IN  IF Contains(line, PAGE_START) THEN "InRecord"
           ELSE IF Contains(line, PAGE_END) \/ before = "Idle" THEN "Idle"
           ELSE IF Contains(line, TEXT_END) THEN "InRecord"
           ELSE IF Contains(line, TEXT_START) THEN "InTextField"
           ELSE before

\* C22: a title line consumed where the markers read so far put the parser
\* outside a text field (in no record, in a record before its <text, or
\* after its </text>) is not appended to the accumulator, whatever records
\* came before it.
C22_OnlyFieldText ==
  [][(pc = "loop" /\ consumed' = consumed + 1
        /\ dump[consumed + 1] = TitleLine
        /\ MarkerState(consumed) # "InTextField") =>
       current_text' = current_text]_vars

\* C23: when parse_dump and save_words(output_file) have returned, the
\* output file is what this run made of its dump: it holds no line if the
\* run spooled no word, whatever an earlier run left there, and it exists if
\* the run spooled a word, not being the file save_words removes as the
\* spool.
C23_OutputOfThisRun ==
  pc = "done" =>
    /\ total_words_written = 0 => files[output_file].lines = <<>>
    /\ total_words_written > 0 => files[output_file].exists

=============================================================================
